---- MODULE Spec2Model ----
(***************************************************************************)
(* Model of src/context/src/asset_manager.rs: the AssetManager, its two    *)
(* name-keyed caches (meshes, textures), the backend selector FactoryImpl  *)
(* and the six public operations.                                          *)
(*                                                                         *)
(* A HashMap is modelled as a set of entries [key, val]; insert removes    *)
(* any entry with the same key before adding the new one, get picks the    *)
(* entry under a key.  Backend resources (vertex buffers, slices, shader   *)
(* resource views) are opaque handles chosen by the backend.  A panic      *)
(* (unwrap on None, unimplemented!) ends the program: no operation follows *)
(* it.                                                                     *)
(*                                                                         *)
(* last records the most recent call, its arguments, what the backend did  *)
(* and what the call gave back.  recent is a history variable: for each    *)
(* name, the resource most recently handed to an insert of each cache.     *)
(***************************************************************************)
EXTENDS Integers, FiniteSets, Sequences, TLC

VARIABLES factory_impl, meshes, textures, last, recent

vars == <<factory_impl, meshes, textures, last, recent>>

\* ---------------------------------------------------------------- bounds
MaxHandle == 2
MaxColor == 2
MaxTransform == 2

\* The asset names callers use.  Two names give every case of the operations:
\* the same name or another one, in the mesh cache or in the texture cache,
\* ka and kd equal or different.
Names == {"n1", "n2"}
Handles == 1..MaxHandle
Colors == 1..MaxColor
Transforms == 1..MaxTransform

\* ------------------------------------------------------------ data types
\* enum FactoryImpl { OpenGL, #[cfg(windows)] Direct3D, Null }
FactoryImpl == {"OpenGL", "Direct3D", "Null"}

\* Option<T>, () and a panic, as the outcome of a call
Some(v) == [kind |-> "Some", val |-> v]
None == [kind |-> "None"]
Unit == [kind |-> "Unit"]
Panic == [kind |-> "Panic"]

\* MeshImpl::OpenGL { buffer, slice } and struct Mesh { mesh_impl }
MeshImplOpenGL(buffer, slice) == [tag |-> "OpenGL", buffer |-> buffer, slice |-> slice]
Mesh(mesh_impl) == [mesh_impl |-> mesh_impl]

\* amethyst_renderer::Texture::{Texture(view), Constant(color)}
RendererTexture(view) == [tag |-> "Texture", view |-> view]
RendererConstant(color) == [tag |-> "Constant", color |-> color]

\* TextureImpl::OpenGL { texture } and struct Texture { texture_impl }
TextureImplOpenGL(texture) == [tag |-> "OpenGL", texture |-> texture]
TextureImplNull == [tag |-> "Null"]
Texture(texture_impl) == [texture_impl |-> texture_impl]

\* amethyst_renderer::Fragment and FragmentImpl::OpenGL { fragment }
RendererFragment(transform, buffer, slice, ka, kd) ==
    [transform |-> transform, buffer |-> buffer, slice |-> slice, ka |-> ka, kd |-> kd]
Fragment(fragment) == [fragment_impl |-> [tag |-> "OpenGL", fragment |-> fragment]]

\* -------------------------------------------------------------- backend
\* factory.create_vertex_buffer_with_slice(&data, ()): the backend hands
\* back a buffer handle and the slice that goes with it.
create_vertex_buffer_with_slice(h) ==
    [buffer |-> [res |-> "Buffer", id |-> h], slice |-> [res |-> "Slice", id |-> h]]

\* factory.create_texture_const(kind, data): Ok((_, view)) or Err(_)
create_texture_const(ok, h) ==
    IF ok THEN [ok |-> TRUE, view |-> [res |-> "View", id |-> h]]
          ELSE [ok |-> FALSE]

\* ------------------------------------------------------------- HashMap
Keys(m) == {e.key : e \in m}

insert_keep_old(m, k, v) ==
    IF k \in Keys(m) THEN m ELSE m \cup {[key |-> k, val |-> v]}

insert_clobber(m, k, v) == {[key |-> k, val |-> v]}

\* HashMap::insert(k, v): the new value replaces the one under k
insert(m, k, v) == {e \in m : e.key # k} \cup {[key |-> k, val |-> v]}

\* HashMap::get(k)
get(m, k) ==
    IF k \in Keys(m) THEN Some((CHOOSE e \in m : e.key = k).val) ELSE None

\* ---------------------------------------------------------- operations
\* Each operator gives the caches after the call and the call's outcome.
Outcome(ms, ts, result) == [meshes |-> ms, textures |-> ts, result |-> result]

load_mesh_null_inserts(f, ms, ts, name, created) ==
    IF f = "Direct3D"
    THEN Outcome(ms, ts, Panic)
    ELSE Outcome(insert(ms, name, Mesh(MeshImplOpenGL(created.buffer, created.slice))),
                 ts, Unit)

load_mesh_into_textures(f, ms, ts, name, created) ==
    CASE f = "OpenGL" ->
           Outcome(insert(ms, name, Mesh(MeshImplOpenGL(created.buffer, created.slice))),
                   {e \in ts : e.key # name}, Unit)
      [] f = "Direct3D" -> Outcome(ms, ts, Panic)
      [] f = "Null" -> Outcome(ms, ts, Unit)

load_mesh(f, ms, ts, name, created) ==
    CASE f = "OpenGL" ->
           Outcome(insert(ms, name, Mesh(MeshImplOpenGL(created.buffer, created.slice))),
                   ts, Unit)
      [] f = "Direct3D" -> Outcome(ms, ts, Panic)
      [] f = "Null" -> Outcome(ms, ts, Unit)

get_mesh_always_none(ms, name) == None

get_mesh(ms, name) == get(ms, name)

load_texture_err_removes(f, ms, ts, name, created) ==
    CASE f = "OpenGL" ->
           IF created.ok
           THEN Outcome(ms,
                        insert(ts, name,
                               Texture(TextureImplOpenGL(RendererTexture(created.view)))),
                        Unit)
           ELSE Outcome(ms, {e \in ts : e.key # name}, Unit)
      [] f = "Direct3D" -> Outcome(ms, ts, Panic)
      [] f = "Null" -> Outcome(ms, ts, Unit)

load_texture(f, ms, ts, name, created) ==
    CASE f = "OpenGL" ->
           IF created.ok
           THEN Outcome(ms,
                        insert(ts, name,
                               Texture(TextureImplOpenGL(RendererTexture(created.view)))),
                        Unit)
           ELSE Outcome(ms, ts, Unit)
      [] f = "Direct3D" -> Outcome(ms, ts, Panic)
      [] f = "Null" -> Outcome(ms, ts, Unit)

create_constant_texture_by_backend(f, ms, ts, name, color) ==
    IF f = "OpenGL"
    THEN Outcome(ms, insert(ts, name, Texture(TextureImplOpenGL(RendererConstant(color)))),
                 Unit)
    ELSE Outcome(ms, insert(ts, name, Texture(TextureImplNull)), Unit)

create_constant_texture_null(f, ms, ts, name, color) ==
    Outcome(ms, insert(ts, name, Texture(TextureImplNull)), Unit)

create_constant_texture(f, ms, ts, name, color) ==
    Outcome(ms, insert(ts, name, Texture(TextureImplOpenGL(RendererConstant(color)))), Unit)

get_texture(ts, name) == get(ts, name)

get_fragment_swapped(f, ms, ts, mesh, ka, kd, transform) ==
    IF get_mesh(ms, mesh) = None \/ get_texture(ts, ka) = None \/ get_texture(ts, kd) = None
    THEN Panic
    ELSE LET m == get_mesh(ms, mesh).val
             a == get_texture(ts, ka).val
             d == get_texture(ts, kd).val
         IN  IF f = "OpenGL" /\ a.texture_impl.tag = "OpenGL"
                /\ d.texture_impl.tag = "OpenGL" /\ m.mesh_impl.tag = "OpenGL"
             THEN Some(Fragment(RendererFragment(transform, m.mesh_impl.buffer,
                                                 m.mesh_impl.slice,
                                                 d.texture_impl.texture,
                                                 a.texture_impl.texture)))
             ELSE IF f = "Direct3D" THEN Panic ELSE None

get_fragment_backend_first(f, ms, ts, mesh, ka, kd, transform) ==
    CASE f = "Null" -> None
      [] f = "Direct3D" -> Panic
      [] f = "OpenGL" ->
           IF get_mesh(ms, mesh) = None \/ get_texture(ts, ka) = None
              \/ get_texture(ts, kd) = None
           THEN None
           ELSE LET m == get_mesh(ms, mesh).val
                    a == get_texture(ts, ka).val
                    d == get_texture(ts, kd).val
                IN  Some(Fragment(RendererFragment(transform, m.mesh_impl.buffer,
                                                   m.mesh_impl.slice,
                                                   a.texture_impl.texture,
                                                   d.texture_impl.texture)))

get_fragment(f, ms, ts, mesh, ka, kd, transform) ==
    IF get_mesh(ms, mesh) = None THEN Panic               \* .unwrap()
    ELSE IF get_texture(ts, ka) = None THEN Panic         \* .unwrap()
    ELSE IF get_texture(ts, kd) = None THEN Panic         \* .unwrap()
    ELSE LET m == get_mesh(ms, mesh).val
             a == get_texture(ts, ka).val
             d == get_texture(ts, kd).val
         IN  CASE f = "OpenGL" ->
                    IF a.texture_impl.tag # "OpenGL" THEN None
                    ELSE IF d.texture_impl.tag # "OpenGL" THEN None
                    ELSE IF m.mesh_impl.tag # "OpenGL" THEN None
                    ELSE Some(Fragment(RendererFragment(transform,
                                                        m.mesh_impl.buffer,
                                                        m.mesh_impl.slice,
                                                        a.texture_impl.texture,
                                                        d.texture_impl.texture)))
               [] f = "Direct3D" -> Panic                 \* unimplemented!()
               [] f = "Null" -> None

\* ------------------------------------------------------------- the machine
\* AssetManager::new(factory_impl): both caches empty
Init ==
    /\ factory_impl \in FactoryImpl
    /\ meshes = {}
    /\ textures = {}
    /\ last = [op |-> "new", result |-> Unit]
    /\ recent = [mesh |-> [n \in Names |-> None], texture |-> [n \in Names |-> None]]

Running == last.result # Panic

LoadMesh(name, h) ==
    /\ Running
    /\ LET created == create_vertex_buffer_with_slice(h)
           out == load_mesh(factory_impl, meshes, textures, name, created)
       IN  /\ meshes' = out.meshes
           /\ textures' = out.textures
           /\ last' = [op |-> "load_mesh", name |-> name,
                       created |-> IF factory_impl = "OpenGL" THEN Some(created) ELSE None,
                       replaced |-> (factory_impl = "OpenGL" /\ name \in Keys(meshes)),
                       result |-> out.result]
           /\ recent' = IF factory_impl = "OpenGL"
                        THEN [recent EXCEPT !.mesh[name] = Some(created)]
                        ELSE recent
    /\ UNCHANGED factory_impl

GetMesh(name) ==
    /\ Running
    /\ last' = [op |-> "get_mesh", name |-> name, result |-> get_mesh(meshes, name)]
    /\ UNCHANGED <<factory_impl, meshes, textures, recent>>

LoadTexture(name, ok, h) ==
    /\ Running
    /\ LET created == create_texture_const(ok, h)
           out == load_texture(factory_impl, meshes, textures, name, created)
       IN  /\ meshes' = out.meshes
           /\ textures' = out.textures
           /\ last' = [op |-> "load_texture", name |-> name,
                       created |-> (factory_impl = "OpenGL" /\ ok),
                       failed |-> (factory_impl = "OpenGL" /\ ~ok),
                       replaced |-> (factory_impl = "OpenGL" /\ ok
                                     /\ name \in Keys(textures)),
                       result |-> out.result]
           /\ recent' = IF factory_impl = "OpenGL" /\ ok
                        THEN [recent EXCEPT
                                !.texture[name] = Some(RendererTexture(created.view))]
                        ELSE recent
    /\ UNCHANGED factory_impl

CreateConstantTexture(name, color) ==
    /\ Running
    /\ LET out == create_constant_texture(factory_impl, meshes, textures, name, color)
       IN  /\ meshes' = out.meshes
           /\ textures' = out.textures
           /\ last' = [op |-> "create_constant_texture", name |-> name,
                       color |-> color, replaced |-> (name \in Keys(textures)),
                       result |-> out.result]
           /\ recent' = [recent EXCEPT !.texture[name] = Some(RendererConstant(color))]
    /\ UNCHANGED factory_impl

GetTexture(name) ==
    /\ Running
    /\ last' = [op |-> "get_texture", name |-> name, result |-> get_texture(textures, name)]
    /\ UNCHANGED <<factory_impl, meshes, textures, recent>>

GetFragment(mesh, ka, kd, transform) ==
    /\ Running
    /\ last' = [op |-> "get_fragment", mesh |-> mesh, ka |-> ka, kd |-> kd,
                transform |-> transform,
                result |-> get_fragment(factory_impl, meshes, textures,
                                        mesh, ka, kd, transform)]
    /\ UNCHANGED <<factory_impl, meshes, textures, recent>>

Next ==
    \/ \E name \in Names, h \in Handles : LoadMesh(name, h)
    \/ \E name \in Names : GetMesh(name)
    \/ \E name \in Names, ok \in BOOLEAN, h \in Handles : LoadTexture(name, ok, h)
    \/ \E name \in Names, color \in Colors : CreateConstantTexture(name, color)
    \/ \E name \in Names : GetTexture(name)
    \/ \E mesh \in Names, ka \in Names, kd \in Names, transform \in Transforms :
         GetFragment(mesh, ka, kd, transform)

Spec == Init /\ [][Next]_vars

\* ------------------------------------------------------------ properties
\* What a cache must give back for a name, from the history of its inserts.
ExpectedMesh(n) ==
    IF recent.mesh[n] = None THEN None
    ELSE Some(Mesh(MeshImplOpenGL(recent.mesh[n].val.buffer, recent.mesh[n].val.slice)))

ExpectedTexture(n) ==
    IF recent.texture[n] = None THEN None
    ELSE Some(Texture(TextureImplOpenGL(recent.texture[n].val)))

EntriesUnder(m, n) == {e \in m : e.key = n}

Lookups == {"get_mesh", "get_texture", "get_fragment"}

\* C1: the cache returns what was inserted under that name.  get_mesh(n)
\* gives a clone of the mesh of the most recent load_mesh(n, ..) that
\* inserted, get_texture(n) a clone of the texture of the most recent
\* successful load_texture(n, ..) or create_constant_texture(n, ..), None
\* when there was none; a later insert replaces the earlier entry, so a cache
\* never holds two entries under one name.
C1_CacheReturnsLastInserted ==
    /\ \A n \in Names :
         /\ get_mesh(meshes, n) = ExpectedMesh(n)
         /\ get_texture(textures, n) = ExpectedTexture(n)
         /\ Cardinality(EntriesUnder(meshes, n)) <= 1
         /\ Cardinality(EntriesUnder(textures, n)) <= 1
    /\ last.op = "get_mesh" => last.result = ExpectedMesh(last.name)
    /\ last.op = "get_texture" => last.result = ExpectedTexture(last.name)
    /\ (last.op = "load_mesh" /\ last.created # None) =>
         get_mesh(meshes, last.name) =
           Some(Mesh(MeshImplOpenGL(last.created.val.buffer, last.created.val.slice)))

\* C1 witness: a lookup returns the second mesh loaded under a name that
\* already had one, while the texture cache holds an entry of its own.
C1_Witness ==
    /\ last.op = "get_mesh"
    /\ last.result = Some(Mesh(MeshImplOpenGL(create_vertex_buffer_with_slice(2).buffer,
                                              create_vertex_buffer_with_slice(2).slice)))
    /\ Keys(textures) # {}

\* C2: on OpenGL, with the mesh name and both texture names cached,
\* get_fragment returns Some fragment made of the cached mesh's buffer and
\* slice, the cached textures under ka and kd in that order, and the
\* transform passed in.
C2_FragmentFromCachedAssets ==
    (/\ last.op = "get_fragment"
     /\ factory_impl = "OpenGL"
     /\ last.mesh \in Keys(meshes)
     /\ last.ka \in Keys(textures)
     /\ last.kd \in Keys(textures))
    => /\ last.result.kind = "Some"
       /\ last.result.val.fragment_impl.tag = "OpenGL"
       /\ LET fr == last.result.val.fragment_impl.fragment
          IN  /\ fr.transform = last.transform
              /\ fr.buffer = get_mesh(meshes, last.mesh).val.mesh_impl.buffer
              /\ fr.slice = get_mesh(meshes, last.mesh).val.mesh_impl.slice
              /\ fr.ka = get_texture(textures, last.ka).val.texture_impl.texture
              /\ fr.kd = get_texture(textures, last.kd).val.texture_impl.texture

\* C2 witness: a fragment was built from two different cached textures.
C2_Witness ==
    /\ last.op = "get_fragment"
    /\ factory_impl = "OpenGL"
    /\ last.result.kind = "Some"
    /\ last.ka # last.kd
    /\ get_texture(textures, last.ka) # get_texture(textures, last.kd)
    /\ last.transform = 2

\* C3: get_fragment panics, and does not return None, whenever the mesh name
\* is missing from the mesh cache or ka or kd is missing from the texture
\* cache, on every backend.
C3_MissingNamePanics ==
    (/\ last.op = "get_fragment"
     /\ \/ last.mesh \notin Keys(meshes)
        \/ last.ka \notin Keys(textures)
        \/ last.kd \notin Keys(textures))
    => last.result = Panic

\* C3 witness: on OpenGL the mesh is cached and ka is, kd is not, and the
\* call panicked.
C3_Witness ==
    /\ last.op = "get_fragment"
    /\ factory_impl = "OpenGL"
    /\ last.mesh \in Keys(meshes)
    /\ last.ka \in Keys(textures)
    /\ last.kd \notin Keys(textures)
    /\ last.result = Panic

\* C4: a load_texture whose create_texture_const fails returns normally and
\* leaves both caches as they were: a texture stored under the name before is
\* still the one get_texture gives, an absent name stays absent.
C4_FailedTextureIsNoOp ==
    [][(last'.op = "load_texture" /\ last'.failed)
       => /\ last'.result = Unit
          /\ meshes' = meshes
          /\ textures' = textures
          /\ get_texture(textures', last'.name) = get_texture(textures, last'.name)
          /\ get_texture(textures', last'.name) = ExpectedTexture(last'.name)]_vars

\* C4 witness: the creation failed for a name that has a texture cached.
C4_Witness ==
    /\ last.op = "load_texture"
    /\ last.failed
    /\ last.name \in Keys(textures)
    /\ Names \ Keys(textures) # {}

\* C5: create_constant_texture never fails and does not look at the backend:
\* on every backend the texture cache then gives, under that name, the
\* constant texture of exactly that color in the OpenGL texture variant.
C5_ConstantTextureOnEveryBackend ==
    /\ last.op = "create_constant_texture" =>
         /\ last.result = Unit
         /\ get_texture(textures, last.name) =
              Some(Texture(TextureImplOpenGL(RendererConstant(last.color))))
    /\ (/\ last.op = "get_texture"
        /\ recent.texture[last.name].kind = "Some"
        /\ recent.texture[last.name].val.tag = "Constant")
       => last.result =
            Some(Texture(TextureImplOpenGL(
                   RendererConstant(recent.texture[last.name].val.color))))

\* C5 witness: on the Null backend get_texture returned a constant texture.
C5_Witness ==
    /\ factory_impl = "Null"
    /\ last.op = "get_texture"
    /\ last.result = Some(Texture(TextureImplOpenGL(RendererConstant(2))))

\* C6: lookups are read-only.  get_mesh and get_texture give None exactly
\* when the name is no key of their cache, else the value stored under it,
\* and get_mesh, get_texture and get_fragment leave the backend selection and
\* both caches unchanged, so the same lookup again gives the same result.
C6_LookupsReadOnly ==
    [][last'.op \in Lookups
       => /\ factory_impl' = factory_impl
          /\ meshes' = meshes
          /\ textures' = textures
          /\ last'.op = "get_mesh" =>
               /\ (last'.result = None) <=> (last'.name \notin Keys(meshes))
               /\ last'.result # None =>
                    [key |-> last'.name, val |-> last'.result.val] \in meshes
               /\ last'.result = get_mesh(meshes', last'.name)
          /\ last'.op = "get_texture" =>
               /\ (last'.result = None) <=> (last'.name \notin Keys(textures))
               /\ last'.result # None =>
                    [key |-> last'.name, val |-> last'.result.val] \in textures
               /\ last'.result = get_texture(textures', last'.name)
          /\ last'.op = "get_fragment" =>
               last'.result = get_fragment(factory_impl', meshes', textures', last'.mesh,
                                           last'.ka, last'.kd, last'.transform)]_vars

\* C6 witness: get_mesh found its name while the other name is absent.
C6_Witness ==
    /\ last.op = "get_mesh"
    /\ last.result.kind = "Some"
    /\ Names \ Keys(meshes) # {}

\* C7: the caches are separate namespaces.  load_mesh changes at most the
\* mesh entry of its name and leaves the textures alone; load_texture and
\* create_constant_texture change at most the texture entry of their name and
\* leave the meshes alone; entries under other names are untouched.
C7_IndependentNamespaces ==
    [][/\ last'.op = "load_mesh" =>
            /\ textures' = textures
            /\ \A n \in Names \ {last'.name} :
                 EntriesUnder(meshes', n) = EntriesUnder(meshes, n)
       /\ last'.op \in {"load_texture", "create_constant_texture"} =>
            /\ meshes' = meshes
            /\ \A n \in Names \ {last'.name} :
                 EntriesUnder(textures', n) = EntriesUnder(textures, n)]_vars

\* C7 witness: a mesh was loaded under a name the texture cache holds too,
\* with another name cached beside it.
C7_Witness ==
    /\ last.op = "load_mesh"
    /\ last.name \in Keys(meshes) \cap Keys(textures)
    /\ Keys(meshes) = Names
    /\ Keys(textures) = Names

\* C8: on a backend other than OpenGL the mesh cache is always empty, so
\* get_fragment never returns a value there: every call panics.
C8_NoMeshOffOpenGL ==
    factory_impl # "OpenGL" =>
      /\ meshes = {}
      /\ last.op = "get_fragment" => last.result = Panic
      /\ last.op = "load_mesh" => last.created = None

\* C8 witness: on Null, with both textures cached, get_fragment panicked.
C8_Witness ==
    /\ factory_impl = "Null"
    /\ last.op = "get_fragment"
    /\ last.ka \in Keys(textures)
    /\ last.kd \in Keys(textures)
    /\ last.result = Panic

\* C9: every cached mesh is the OpenGL mesh variant and every cached texture
\* the OpenGL texture variant, so on OpenGL get_fragment never returns None:
\* it panics on a missing name or returns Some fragment.
C9_OnlyOpenGLVariantsCached ==
    /\ \A e \in meshes : e.val.mesh_impl.tag = "OpenGL"
    /\ \A e \in textures : e.val.texture_impl.tag = "OpenGL"
    /\ (last.op = "get_fragment" /\ factory_impl = "OpenGL") =>
         /\ last.result # None
         /\ last.result.kind \in {"Some", "Panic"}
         /\ (last.result = Panic) <=>
              (\/ last.mesh \notin Keys(meshes)
               \/ last.ka \notin Keys(textures)
               \/ last.kd \notin Keys(textures))

\* C9 witness: a fragment built with a constant ka and a loaded kd.
C9_Witness ==
    /\ factory_impl = "OpenGL"
    /\ last.op = "get_fragment"
    /\ last.result.kind = "Some"
    /\ last.result.val.fragment_impl.fragment.ka.tag = "Constant"
    /\ last.result.val.fragment_impl.fragment.kd.tag = "Texture"

\* C10: both caches start empty, a name that is a key of a cache stays a key
\* of it (entries are replaced, never removed), and the backend selection
\* never changes.
C10_NoEviction ==
    /\ (meshes = {} /\ textures = {})
    /\ [][/\ Keys(meshes) \subseteq Keys(meshes')
          /\ Keys(textures) \subseteq Keys(textures')
          /\ factory_impl' = factory_impl]_vars

\* C10 witness: an insert replaced an entry and both caches are full.
C10_Witness ==
    /\ last.op \in {"load_mesh", "load_texture", "create_constant_texture"}
    /\ last.replaced
    /\ Keys(meshes) = Names
    /\ Keys(textures) = Names
    /\ last.result = Unit

====
